---- MODULE Spec2Model ----
(***************************************************************************)
(* Multi-tier memory retention pipeline of core/memory.py, with the        *)
(* tension extractor of core/perception.py.                                *)
(*                                                                         *)
(* Time is counted in whole hours.  A timestamp string is modelled by its  *)
(* format and the instant it denotes.  JSON values coming from the model   *)
(* calls are tagged (dict / str / bool / null) so that Python's dict.get   *)
(* on a value that is not a dict can raise as it does in the code.         *)
(***************************************************************************)
EXTENDS Integers, Sequences, FiniteSets, TLC

VARIABLES
    ledger_48h,            \* List[LedgerEntry], newest first
    vibe_history,          \* List[VibePoint], chronological
    tier1_events_48h,      \* List[Tier1Record], newest first
    tier2_summaries_30d,   \* List[Tier2Summary], newest first
    tier3_embeddings,      \* List[Tier3Embedding], newest first
    now,                   \* datetime.utcnow(), in hours
    ticks,                 \* how many times the clock has advanced
    base,                  \* runs recorded before the first state
    log,                   \* one entry per add_run_artifacts call: inputs, outcome
    lastOp,                \* the last operation and what it found
    exported,              \* the last value returned by export_payload
    events_in,             \* the last argument of extract_tension_level
    tension                \* the last value returned by extract_tension_level

vars == <<ledger_48h, vibe_history, tier1_events_48h, tier2_summaries_30d,
          tier3_embeddings, now, ticks, base, log, lastOp, exported,
          events_in, tension>>

colls == <<ledger_48h, vibe_history, tier1_events_48h, tier2_summaries_30d,
           tier3_embeddings>>

(***************************************************************************)
(* Bounds of the model.                                                    *)
(***************************************************************************)
MaxRuns == 2
MaxBulkRuns == 1
MaxTicks == 1
OldRuns == 1
BulkRuns == 2000
MaxEvents == 2

(***************************************************************************)
(* Program constants.                                                      *)
(***************************************************************************)
LEDGER_HOURS == 48
TIER1_HOURS == 48
VIBE_DAYS == 30
TIER2_DAYS == 30
LEDGER_KEEP_MAX == 200
TIER1_KEEP_MAX == 200
VIBE_KEEP_MAX == 2000
TIER2_KEEP_MAX == 500
TIER3_KEEP_MAX == 2000

(***************************************************************************)
(* JSON values and Python's handling of them.                              *)
(***************************************************************************)
JNull == [tag |-> "null"]
JStr(s) == [tag |-> "str", v |-> s]
JBool(b) == [tag |-> "bool", v |-> b]
JDict(f) == [tag |-> "dict", v |-> f]
EmptyDict == JDict([k \in {} |-> JNull])

IsDict(x) == x.tag = "dict"

\* d.get(k, default) on a dict d
Get(d, k, default) == IF k \in DOMAIN d.v THEN d.v[k] ELSE default

\* bool(x)
Truthy(x) ==
    CASE x.tag = "bool" -> x.v
      [] x.tag = "str" -> x.v # ""
      [] x.tag = "dict" -> DOMAIN x.v # {}
      [] OTHER -> FALSE

\* str(x), as an f-string formats a value
Str(x) ==
    CASE x.tag = "str" -> x.v
      [] x.tag = "bool" -> IF x.v THEN "True" ELSE "False"
      [] x.tag = "null" -> "None"
      [] OTHER -> "{...}"

(***************************************************************************)
(* Timestamps.  fmt "Z": naive ISO-8601 text with a Z suffix, as           *)
(* utc_now_iso writes it; fmt "offset": ISO-8601 text with an explicit     *)
(* +00:00 zone; fmt "garbage": text that is no ISO-8601 date.              *)
(***************************************************************************)
TsFormats == {"Z", "offset", "garbage"}

utc_now_iso(t) == [fmt |-> "Z", t |-> t]

\* datetime.fromisoformat(ts.replace("Z", "")): a naive or an aware datetime,
\* or ValueError
fromisoformat(ts) ==
    CASE ts.fmt = "Z" -> [ok |-> TRUE, aware |-> FALSE, t |-> ts.t]
      [] ts.fmt = "offset" -> [ok |-> TRUE, aware |-> TRUE, t |-> ts.t]
      [] OTHER -> [ok |-> FALSE, aware |-> FALSE, t |-> 0]

(***************************************************************************)
(* The record types of core/schema.py.  run is the identity of the object  *)
(* (the call that created it); asdict does not show it.                    *)
(***************************************************************************)
PRIVACY_NOTE == "Stored derived evidence only (quotes + constitution excerpts). No raw audio/video."

LedgerEntry(run, ts, fr, con, plan) ==
    [run |-> run, ts_utc |-> ts, fact_receipt |-> fr, conclusion |-> con,
     intervention_plan |-> plan, privacy_note |-> PRIVACY_NOTE]

VibePoint(run, ts, level, notify) ==
    [run |-> run, ts_utc |-> ts, level |-> level, notify |-> notify]

Tier1Record(run, ts, events) ==
    [run |-> run, ts_utc |-> ts, events |-> events]

Tier2Summary(run, ts, summary, ctype) ==
    [run |-> run, ts_utc |-> ts, summary |-> summary, conclusion_type |-> ctype]

Tier3Embedding(run, ts, id, theme) ==
    [run |-> run, ts_utc |-> ts, embedding_id |-> id, theme |-> theme]

\* dataclasses.asdict: the fields, without the object's identity
asdict(rec) == [k \in (DOMAIN rec) \ {"run"} |-> rec[k]]

(***************************************************************************)
(* The session: the five collections an operation is handed.               *)
(***************************************************************************)
Session ==
    [ledger_48h |-> ledger_48h, vibe_history |-> vibe_history,
     tier1_events_48h |-> tier1_events_48h,
     tier2_summaries_30d |-> tier2_summaries_30d,
     tier3_embeddings |-> tier3_embeddings]

CollNames ==
    {"ledger_48h", "vibe_history", "tier1_events_48h", "tier2_summaries_30d",
     "tier3_embeddings"}

Min(a, b) == IF a <= b THEN a ELSE b

\* list.insert(0, x)
Insert0(list, x) == <<x>> \o list

(***************************************************************************)
(* Identity deriver.  The digest of a payload is an abstract value: equal  *)
(* payloads have equal digests, and the 2^48 digests are taken not to      *)
(* collide on the payloads of the model.                                   *)
(***************************************************************************)
make_fake_embedding_id(payload) == <<"sha256[:12]", payload>>

\* json.dumps(asdict(t2), ensure_ascii=False)
json_dumps(d) ==
    <<"ts_utc", d.ts_utc, "summary", d.summary, "conclusion_type", d.conclusion_type>>

(***************************************************************************)
(* Artifact recorder.                                                      *)
(***************************************************************************)
summary_text(con, plan) ==
    <<Str(Get(con, "type", JStr("unknown"))), ": ",
      Str(Get(con, "one_sentence_summary", JStr(""))),
      " | notify=", Str(Get(plan, "should_notify", JBool(FALSE))),
      " via ", Str(Get(plan, "channel", JStr("none")))>>

\* The Tier2Summary of lines 77-87; con and plan are dicts here.
make_t2(run, ts, con, plan) ==
    Tier2Summary(run, ts, summary_text(con, plan), Get(con, "type", JStr("unknown")))

\* Variants of make_t3 with a slip: an id salted with the position of the run
\* in the session; a theme read from the wrong part of the summary.
make_t3_salted(run, ts, t2) ==
    Tier3Embedding(run, ts, make_fake_embedding_id(<<json_dumps(asdict(t2)), run>>),
                   t2.conclusion_type)

make_t3_theme_from_summary(run, ts, t2) ==
    Tier3Embedding(run, ts, make_fake_embedding_id(json_dumps(asdict(t2))),
                   JStr(t2.summary[3]))

\* The Tier3Embedding of lines 91-98.
make_t3(run, ts, t2) ==
    Tier3Embedding(run, ts, make_fake_embedding_id(json_dumps(asdict(t2))),
                   t2.conclusion_type)

\* add_run_artifacts on session S: the session it leaves and whether it raised.
\* result is a dict; a sub-payload that is not a dict makes .get raise
\* AttributeError, after the appends made before that line.
add_run_artifacts(S, run, ts, events, result, tension_level) ==
    LET fr   == Get(result, "fact_receipt", EmptyDict)
        con  == Get(result, "conclusion", EmptyDict)
        plan == Get(result, "intervention_plan", EmptyDict)
        S1 == [S EXCEPT !.ledger_48h =
                  Insert0(@, LedgerEntry(run, ts, fr, con, plan))]
        notify == Truthy(Get(plan, "should_notify", JBool(FALSE)))
        S2 == [S1 EXCEPT !.vibe_history =
                  Append(@, VibePoint(run, ts, tension_level, notify))]
        S3 == [S2 EXCEPT !.tier1_events_48h =
                  Insert0(@, Tier1Record(run, ts, events))]
        t2 == make_t2(run, ts, con, plan)
        S4 == [S3 EXCEPT !.tier2_summaries_30d = Insert0(@, t2)]
        S5 == [S4 EXCEPT !.tier3_embeddings = Insert0(@, make_t3(run, ts, t2))]
    IN  IF ~IsDict(plan)
          THEN [S |-> S1, raised |-> TRUE, added |-> {"ledger_48h"}]
        ELSE IF ~IsDict(con)
          THEN [S |-> S3, raised |-> TRUE,
                added |-> {"ledger_48h", "vibe_history", "tier1_events_48h"}]
        ELSE [S |-> S5, raised |-> FALSE, added |-> CollNames]

(***************************************************************************)
(* Retention pruner.  t is datetime.utcnow() at the call.                  *)
(***************************************************************************)
\* Variant of KeptByAge with a slip: the except branch drops the record.
KeptByAge_drop_on_error(it, cutoff) ==
    LET dt == fromisoformat(it.ts_utc)
    IN  IF ~dt.ok THEN FALSE
        ELSE IF dt.aware THEN FALSE
        ELSE dt.t >= cutoff

\* The body of the try block: the record is kept when the comparison says so,
\* and also when parsing (ValueError) or comparing a zone-aware datetime with
\* the naive cutoff (TypeError) raises.
KeptByAge(it, cutoff) ==
    LET dt == fromisoformat(it.ts_utc)
    IN  IF ~dt.ok THEN TRUE
        ELSE IF dt.aware THEN TRUE
        ELSE dt.t >= cutoff

\* Variants of Truncate with a slip: kept[-keep_max:] and kept[1:keep_max].
Truncate_keep_last(kept, keep_max) ==
    SubSeq(kept, Len(kept) - Min(keep_max, Len(kept)) + 1, Len(kept))

Truncate_skip_first(kept, keep_max) == SubSeq(kept, 2, Min(keep_max, Len(kept)))

\* kept[:keep_max]
Truncate(kept, keep_max) == SubSeq(kept, 1, Min(keep_max, Len(kept)))

prune_by_hours(items, hours, keep_max, t) ==
    LET cutoff == t - hours
        Test(it) == KeptByAge(it, cutoff)
    IN  Truncate(SelectSeq(items, Test), keep_max)

\* Variant of prune_by_days with a slip: the cap keeps the last keep_max
\* survivors (a rolling window of the most recently appended) instead of the first.
prune_by_days_keep_recent(items, days, keep_max, t) ==
    LET cutoff == t - days * 24
        Test(it) == KeptByAge(it, cutoff)
        kept == SelectSeq(items, Test)
    IN  SubSeq(kept, Len(kept) - Min(keep_max, Len(kept)) + 1, Len(kept))

prune_by_days(items, days, keep_max, t) ==
    LET cutoff == t - days * 24
        Test(it) == KeptByAge(it, cutoff)
    IN  Truncate(SelectSeq(items, Test), keep_max)

\* if len(tier3) > 2000: del tier3[2000:]
cap_tier3(items) ==
    IF Len(items) > TIER3_KEEP_MAX THEN SubSeq(items, 1, TIER3_KEEP_MAX) ELSE items

apply_retention_policy(S, t) ==
    [ledger_48h |-> prune_by_hours(S.ledger_48h, LEDGER_HOURS, LEDGER_KEEP_MAX, t),
     tier1_events_48h |->
         prune_by_hours(S.tier1_events_48h, TIER1_HOURS, TIER1_KEEP_MAX, t),
     vibe_history |-> prune_by_days(S.vibe_history, VIBE_DAYS, VIBE_KEEP_MAX, t),
     tier2_summaries_30d |->
         prune_by_days(S.tier2_summaries_30d, TIER2_DAYS, TIER2_KEEP_MAX, t),
     tier3_embeddings |-> cap_tier3(S.tier3_embeddings)]

(***************************************************************************)
(* Export assembler.                                                       *)
(***************************************************************************)
PRIVACY_STATEMENT ==
    "This demo stores derived events and receipts. It does not store raw audio/video or face identity."

AsDicts(list) == [i \in 1..Len(list) |-> asdict(list[i])]

export_payload(ledger, vibe, tier2, tier3) ==
    [ledger_48h |-> AsDicts(ledger),
     vibe_history_30d |-> AsDicts(vibe),
     tier2_summaries_30d |-> AsDicts(tier2),
     tier3_embeddings |-> AsDicts(tier3),
     privacy_statement |-> PRIVACY_STATEMENT]

\* Variant of ExportOf with a slip: all five collections are exported.
ExportOf_with_tier1(S) ==
    export_payload(S.ledger_48h, S.vibe_history, S.tier2_summaries_30d,
                   S.tier3_embeddings)
        @@ ("tier1_events_48h" :> AsDicts(S.tier1_events_48h))

\* The export of a session: export_payload takes four of the five collections.
ExportOf(S) ==
    export_payload(S.ledger_48h, S.vibe_history, S.tier2_summaries_30d,
                   S.tier3_embeddings)

(***************************************************************************)
(* Tension extractor.  A dict of the events payload is a function from its *)
(* keys; a missing key reads as the default of .get.                       *)
(***************************************************************************)
DGet(d, k, default) == IF k \in DOMAIN d THEN d[k] ELSE default

MinOf(S) == CHOOSE x \in S : \A y \in S : x <= y

\* Variant of extract_tension_level with a slip: the scan does not stop at the
\* first tension-signal event, so the last one decides.
extract_tension_level_last_match(events_dict) ==
    LET evs == DGet(events_dict, "events", <<>>)
        hits == {i \in 1..Len(evs) : DGet(evs[i], "type", "None") = "TensionSignalEvent"}
    IN  IF hits = {}
          THEN [level |-> "unknown", should_notify_hint |-> FALSE]
        ELSE LET ev == evs[CHOOSE i \in hits : \A j \in hits : j <= i]
                 level == DGet(ev, "level", "unknown")
                 signals == DGet(ev, "signals", {})
             IN  [level |-> level,
                  should_notify_hint |->
                      (level \in {"rising", "high"}) \/ ("rapid_escalation" \in signals)]

extract_tension_level(events_dict) ==
    LET evs == DGet(events_dict, "events", <<>>)
        hits == {i \in 1..Len(evs) : DGet(evs[i], "type", "None") = "TensionSignalEvent"}
    IN  IF hits = {}
          THEN [level |-> "unknown", should_notify_hint |-> FALSE]
        ELSE LET ev == evs[MinOf(hits)]
                 level == DGet(ev, "level", "unknown")
                 signals == DGet(ev, "signals", {})
             IN  [level |-> level,
                  should_notify_hint |->
                      (level \in {"rising", "high"}) \/ ("rapid_escalation" \in signals)]

(***************************************************************************)
(* Inputs.                                                                 *)
(***************************************************************************)
\* The timestamp a caller passes at time t, in format f.
TsAt(f, t) == [fmt |-> f, t |-> IF f = "garbage" THEN 0 ELSE t]

\* An events payload with the tension level read from it.
Perceptions ==
    {[events |-> "events: SpeechEvent quote 'A: You never told me'", level |-> "low"],
     [events |-> "events: SpeechEvent quote 'B: I thought you meant'", level |-> "high"]}

CON_A ==
    JDict("type" :> JStr("memory_mismatch")
          @@ "one_sentence_summary" :> JStr("A and B recall the rule differently"))
CON_B ==
    JDict("type" :> JStr("ambiguous")
          @@ "one_sentence_summary" :> JStr("The rule does not cover this case"))
PLAN_A == JDict("should_notify" :> JBool(TRUE) @@ "channel" :> JStr("push"))
PLAN_B == JDict("should_notify" :> JBool(FALSE))

\* Mediation results: well-formed ones, ones with sub-payloads missing, and
\* ones where a sub-payload is not a dict (null, a string).
R_FULL_A ==
    JDict("fact_receipt" :> JDict("evidence_from_chat" :> JStr("quote"))
          @@ "conclusion" :> CON_A @@ "intervention_plan" :> PLAN_A)
R_NO_RECEIPT == JDict("conclusion" :> CON_A @@ "intervention_plan" :> PLAN_A)
R_FULL_B == JDict("conclusion" :> CON_B @@ "intervention_plan" :> PLAN_B)
R_EMPTY == EmptyDict
R_PLAN_NULL == JDict("conclusion" :> CON_A @@ "intervention_plan" :> JNull)
R_CON_STR == JDict("conclusion" :> JStr("ambiguous") @@ "intervention_plan" :> PLAN_A)

MediationResults ==
    {R_FULL_A, R_NO_RECEIPT, R_FULL_B, R_EMPTY, R_PLAN_NULL, R_CON_STR}

PerceptionA == CHOOSE p \in Perceptions : p.level = "low"

\* The arguments of a call: around the well-formed call (a Z timestamp,
\* PerceptionA, R_FULL_A), each argument takes every value of its set.
RunInputs ==
    {[fmt |-> "Z", p |-> PerceptionA, result |-> r] : r \in MediationResults}
    \cup {[fmt |-> "Z", p |-> p, result |-> R_FULL_A] : p \in Perceptions}
    \cup {[fmt |-> f, p |-> PerceptionA, result |-> R_FULL_A] : f \in TsFormats}

\* The arguments of the calls made on a session that already holds many runs.
BulkInputs == {[fmt |-> f, p |-> PerceptionA, result |-> R_FULL_B] : f \in {"Z", "garbage"}}

\* Events of a perception payload, for the tension extractor.
EventTypes == {"TensionSignalEvent", "SpeechEvent"}
EventLevels == {"low", "rising", "high", "medium"}
EventSignals == {{}, {"rapid_escalation"}}

EventDicts ==
    LET WithLevel(S) == S \cup UNION {{e @@ ("level" :> l) : l \in EventLevels} : e \in S}
        WithSignals(S) == S \cup UNION {{e @@ ("signals" :> g) : g \in EventSignals} : e \in S}
    IN  WithSignals(WithLevel({("type" :> t) : t \in EventTypes}))

SeqsUpTo(S, n) == UNION {[1..k -> S] : k \in 0..n}

EventsDicts ==
    {[x \in {} |-> 0]} \cup {("events" :> evs) : evs \in SeqsUpTo(EventDicts, MaxEvents)}

(***************************************************************************)
(* The log of calls, and the state before the first one.                   *)
(***************************************************************************)
NoExport == [tag |-> "none"]
NoT2 == [tag |-> "none"]
NoEvents == [tag |-> "none"]
NoTension == [tag |-> "none"]

Lens(S) == [c \in CollNames |-> Len(S[c])]

LogEntry(ts, events, result, level, at, out) ==
    [ts |-> ts, events |-> events, result |-> result, level |-> level, at |-> at,
     raised |-> out.raised, added |-> out.added,
     t2 |-> IF "tier2_summaries_30d" \in out.added
              THEN out.S.tier2_summaries_30d[1] ELSE NoT2]

\* The runs recorded before the first state, all well-formed: OldRuns runs at
\* hour 0, then BulkRuns runs at hour 1.
BulkTotal == OldRuns + BulkRuns
BulkTs(r) == utc_now_iso(IF r <= OldRuns THEN 0 ELSE 1)

BulkLedger(r) ==
    LedgerEntry(r, BulkTs(r), Get(R_FULL_A, "fact_receipt", EmptyDict), CON_A, PLAN_A)
BulkVibe(r) == VibePoint(r, BulkTs(r), PerceptionA.level, TRUE)
BulkTier1(r) == Tier1Record(r, BulkTs(r), PerceptionA.events)
BulkTier2(r) == make_t2(r, BulkTs(r), CON_A, PLAN_A)
BulkTier3(r) == make_t3(r, BulkTs(r), BulkTier2(r))

BulkLog(r) ==
    [ts |-> BulkTs(r), events |-> PerceptionA.events, result |-> R_FULL_A,
     level |-> PerceptionA.level, at |-> IF r <= OldRuns THEN 0 ELSE 1,
     raised |-> FALSE, added |-> CollNames, t2 |-> BulkTier2(r)]

NRuns == base + Len(log)
LogAt(r) == IF r <= base THEN BulkLog(r) ELSE log[r - base]

InitCommon ==
    /\ ticks = 0
    /\ log = <<>>
    /\ lastOp = [op |-> "init", reps |-> 0, pre |-> [c \in CollNames |-> 0]]
    /\ exported = NoExport
    /\ events_in = NoEvents
    /\ tension = NoTension

\* The session at its start: the five collections, empty.
Init ==
    /\ ledger_48h = <<>>
    /\ vibe_history = <<>>
    /\ tier1_events_48h = <<>>
    /\ tier2_summaries_30d = <<>>
    /\ tier3_embeddings = <<>>
    /\ now = 0
    /\ base = 0
    /\ InitCommon

\* The session at hour 1, after the runs 1..BulkTotal and no pruning.
InitBulk ==
    /\ ledger_48h = [i \in 1..BulkTotal |-> BulkLedger(BulkTotal + 1 - i)]
    /\ vibe_history = [i \in 1..BulkTotal |-> BulkVibe(i)]
    /\ tier1_events_48h = [i \in 1..BulkTotal |-> BulkTier1(BulkTotal + 1 - i)]
    /\ tier2_summaries_30d = [i \in 1..BulkTotal |-> BulkTier2(BulkTotal + 1 - i)]
    /\ tier3_embeddings = [i \in 1..BulkTotal |-> BulkTier3(BulkTotal + 1 - i)]
    /\ now = 1
    /\ base = BulkTotal
    /\ InitCommon

\* The same runs, the first of them recorded with a timestamp that carries an
\* explicit zone ("...+00:00") instead of the Z suffix.
MixedTs(r) == IF r = 1 THEN TsAt("offset", 0) ELSE BulkTs(r)

MixedTier2(r) == make_t2(r, MixedTs(r), CON_A, PLAN_A)

MixedLog(r) == [BulkLog(r) EXCEPT !.ts = MixedTs(r), !.t2 = MixedTier2(r)]

\* The session at hour 1, after those runs and no pruning; the log holds the
\* calls themselves.
InitMixed ==
    /\ ledger_48h = [i \in 1..BulkTotal |->
           LET r == BulkTotal + 1 - i
           IN  LedgerEntry(r, MixedTs(r), Get(R_FULL_A, "fact_receipt", EmptyDict),
                           CON_A, PLAN_A)]
    /\ vibe_history = [i \in 1..BulkTotal |->
           VibePoint(i, MixedTs(i), PerceptionA.level, TRUE)]
    /\ tier1_events_48h = [i \in 1..BulkTotal |->
           LET r == BulkTotal + 1 - i
           IN  Tier1Record(r, MixedTs(r), PerceptionA.events)]
    /\ tier2_summaries_30d = [i \in 1..BulkTotal |-> MixedTier2(BulkTotal + 1 - i)]
    /\ tier3_embeddings = [i \in 1..BulkTotal |->
           LET r == BulkTotal + 1 - i
           IN  make_t3(r, MixedTs(r), MixedTier2(r))]
    /\ now = 1
    /\ base = 0
    /\ log = [r \in 1..BulkTotal |-> MixedLog(r)]
    /\ ticks = 0
    /\ lastOp = [op |-> "init", reps |-> 0, pre |-> [c \in CollNames |-> 0]]
    /\ exported = NoExport
    /\ events_in = NoEvents
    /\ tension = NoTension

(***************************************************************************)
(* Operations.                                                             *)
(***************************************************************************)
SetSession(S) ==
    /\ ledger_48h' = S.ledger_48h
    /\ vibe_history' = S.vibe_history
    /\ tier1_events_48h' = S.tier1_events_48h
    /\ tier2_summaries_30d' = S.tier2_summaries_30d
    /\ tier3_embeddings' = S.tier3_embeddings

\* One call of add_run_artifacts, with its arguments drawn from the given sets.
RecordRunFrom(Inputs, max) ==
    /\ Len(log) < max
    /\ \E in \in Inputs :
         LET ts == TsAt(in.fmt, now)
             out == add_run_artifacts(Session, NRuns + 1, ts, in.p.events, in.result,
                                      in.p.level)
         IN  /\ SetSession(out.S)
             /\ log' = Append(log, LogEntry(ts, in.p.events, in.result, in.p.level,
                                            now, out))
    /\ lastOp' = [op |-> "record_run", reps |-> 0, pre |-> Lens(Session)]
    /\ exported' = NoExport
    /\ UNCHANGED <<now, ticks, base, events_in, tension>>

RecordRun == RecordRunFrom(RunInputs, MaxRuns)

\* One call of apply_retention_policy; the clock is read once for the call.
ApplyRetention ==
    /\ lastOp.op # "apply_retention" \/ lastOp.reps < 2
    /\ SetSession(apply_retention_policy(Session, now))
    /\ lastOp' = IF lastOp.op = "apply_retention"
                   THEN [lastOp EXCEPT !.reps = @ + 1]
                   ELSE [op |-> "apply_retention", reps |-> 1, pre |-> Lens(Session)]
    /\ exported' = NoExport
    /\ UNCHANGED <<now, ticks, base, log, events_in, tension>>

\* One call of export_payload on the session.
Export ==
    /\ lastOp.op # "export"
    /\ exported' = ExportOf(Session)
    /\ lastOp' = [op |-> "export", reps |-> 0, pre |-> Lens(Session)]
    /\ UNCHANGED <<ledger_48h, vibe_history, tier1_events_48h, tier2_summaries_30d,
                   tier3_embeddings, now, ticks, base, log, events_in, tension>>

\* Time passes between calls: as long as a retention window, or an hour more.
TickSteps == {LEDGER_HOURS, LEDGER_HOURS + 1, VIBE_DAYS * 24, VIBE_DAYS * 24 + 1}

Tick ==
    /\ ticks < MaxTicks
    /\ \E d \in TickSteps : now' = now + d
    /\ ticks' = ticks + 1
    /\ lastOp' = [op |-> "tick", reps |-> 0, pre |-> Lens(Session)]
    /\ exported' = NoExport
    /\ UNCHANGED <<ledger_48h, vibe_history, tier1_events_48h, tier2_summaries_30d,
                   tier3_embeddings, base, log, events_in, tension>>

Next == RecordRun \/ ApplyRetention \/ Export \/ Tick

Spec == Init /\ [][Next]_vars

\* Recording and pruning on a session that already holds many runs.
RecordRunBulk == RecordRunFrom(BulkInputs, MaxBulkRuns)

NextBulk == RecordRunBulk \/ ApplyRetention \/ Tick

SpecBulk == InitBulk /\ [][NextBulk]_vars

\* Recording and pruning on a session whose timestamps are all parsable, with
\* the Z suffix or with an explicit zone.
MixedInputs == {[fmt |-> f, p |-> PerceptionA, result |-> R_FULL_B] : f \in {"Z", "offset"}}

RecordRunMixed == RecordRunFrom(MixedInputs, BulkTotal + MaxBulkRuns)

NextMixed == RecordRunMixed \/ ApplyRetention \/ Tick

SpecMixed == InitMixed /\ [][NextMixed]_vars

\* The tension extractor applied to events payloads.
ExtractTension ==
    /\ \E ed \in EventsDicts :
         /\ events_in' = ed
         /\ tension' = extract_tension_level(ed)
    /\ UNCHANGED <<ledger_48h, vibe_history, tier1_events_48h, tier2_summaries_30d,
                   tier3_embeddings, now, ticks, base, log, lastOp, exported>>

NextTension == ExtractTension

SpecTension == Init /\ [][NextTension]_vars

(***************************************************************************)
(* Helpers of the properties.                                              *)
(***************************************************************************)
Range(list) == {list[i] : i \in 1..Len(list)}

\* The step just taken was a call of the named operation.
Did(op) == lastOp.op = op

\* fromisoformat accepts the timestamp text.
Parsable(ts) == fromisoformat(ts).ok

(***************************************************************************)
(* C1.  Every call of add_run_artifacts, whatever the shape of the         *)
(* mediation result, completes without raising and adds exactly one record *)
(* to each of the five collections; no call adds to some and not to others.*)
(***************************************************************************)
C1_OneRecordPerTier ==
    /\ \A k \in 1..Len(log) : ~log[k].raised /\ log[k].added = CollNames
    /\ Did("record_run") => \A c \in CollNames : Len(Session[c]) = lastOp.pre[c] + 1

(***************************************************************************)
(* C2.  After N successive add_run_artifacts calls and no pruning, ledger, *)
(* tier1 and tier2 hold the record of run k at index N-k (newest first)    *)
(* and vibe_history holds it at index k-1 (chronological), with that run's *)
(* should_notify flag.  Stated inductively over the calls.                 *)
(***************************************************************************)
\* The should_notify flag of a mediation result whose plan is a dict.
NotifyOf(result) ==
    Truthy(Get(Get(result, "intervention_plan", EmptyDict), "should_notify", JBool(FALSE)))

NewestFirst(list, n) ==
    /\ Len(list) = n
    /\ \A k \in 1..n : list[n - k + 1].run = k /\ list[n - k + 1].ts_utc = LogAt(k).ts

Chronological(list, n) ==
    /\ Len(list) = n
    /\ \A k \in 1..n :
         /\ list[k].run = k
         /\ list[k].ts_utc = LogAt(k).ts
         /\ list[k].level = LogAt(k).level
         /\ list[k].notify = NotifyOf(LogAt(k).result)

InRunOrder ==
    /\ NewestFirst(ledger_48h, NRuns)
    /\ NewestFirst(tier1_events_48h, NRuns)
    /\ NewestFirst(tier2_summaries_30d, NRuns)
    /\ Chronological(vibe_history, NRuns)

C2_RunOrder == [][(InRunOrder /\ Did("record_run")') => InRunOrder']_vars

(***************************************************************************)
(* C3.  After apply_retention_policy at time now, every record with a      *)
(* parsable timestamp left in ledger or tier1 is at most 48 hours old,     *)
(* every such record left in vibe_history or tier2 at most 30 days old; a  *)
(* record exactly at the cutoff is kept; tier3 loses no record to age.     *)
(* (No count cap is reached from the empty session within MaxRuns.)        *)
(***************************************************************************)
WithinHours(list, hours) ==
    \A i \in 1..Len(list) : Parsable(list[i].ts_utc) => list[i].ts_utc.t >= now - hours

\* Every run that added a record with a timestamp inside the window still has it.
KeepsRecent(list, name, hours) ==
    \A k \in 1..Len(log) :
        (name \in log[k].added /\ Parsable(log[k].ts) /\ log[k].ts.t >= now - hours)
            => \E i \in 1..Len(list) : list[i].run = base + k

C3_AgeWindows ==
    Did("apply_retention") =>
        /\ WithinHours(ledger_48h, LEDGER_HOURS)
        /\ WithinHours(tier1_events_48h, TIER1_HOURS)
        /\ WithinHours(vibe_history, VIBE_DAYS * 24)
        /\ WithinHours(tier2_summaries_30d, TIER2_DAYS * 24)
        /\ KeepsRecent(ledger_48h, "ledger_48h", LEDGER_HOURS)
        /\ KeepsRecent(tier1_events_48h, "tier1_events_48h", TIER1_HOURS)
        /\ KeepsRecent(vibe_history, "vibe_history", VIBE_DAYS * 24)
        /\ KeepsRecent(tier2_summaries_30d, "tier2_summaries_30d", TIER2_DAYS * 24)
        /\ Len(tier3_embeddings) = Min(lastOp.pre.tier3_embeddings, TIER3_KEEP_MAX)

(***************************************************************************)
(* C4.  apply_retention_policy leaves each collection equal to the first   *)
(* hard_cap records of those its age filter lets through, in their order   *)
(* and unaltered; no collection ends longer than its cap; in the           *)
(* head-insert collections the records kept are the most recently created. *)
(***************************************************************************)
\* The age filter removes the record: its timestamp reads as a naive datetime
\* before the cutoff.
AgedOut(it, cutoff) ==
    LET dt == fromisoformat(it.ts_utc) IN dt.ok /\ ~dt.aware /\ dt.t < cutoff

FirstOfSurvivors(pre, post, cutoff, cap) ==
    LET Survives(it) == ~AgedOut(it, cutoff)
        surv == SelectSeq(pre, Survives)
    IN  /\ post = SubSeq(surv, 1, Min(cap, Len(surv)))
        /\ Len(post) <= cap

\* Every record kept was created after every surviving record dropped.
KeepsNewest(pre, post, cutoff) ==
    LET kept == {post[j].run : j \in 1..Len(post)}
        dropped == {pre[i].run : i \in {j \in 1..Len(pre) : ~AgedOut(pre[j], cutoff)}} \ kept
    IN  \A d \in dropped : \A r \in kept : r > d

C4_FirstCapOfSurvivors ==
    [][Did("apply_retention")' =>
        /\ FirstOfSurvivors(ledger_48h, ledger_48h', now - LEDGER_HOURS, LEDGER_KEEP_MAX)
        /\ FirstOfSurvivors(tier1_events_48h, tier1_events_48h', now - TIER1_HOURS,
                            TIER1_KEEP_MAX)
        /\ FirstOfSurvivors(vibe_history, vibe_history', now - VIBE_DAYS * 24,
                            VIBE_KEEP_MAX)
        /\ FirstOfSurvivors(tier2_summaries_30d, tier2_summaries_30d',
                            now - TIER2_DAYS * 24, TIER2_KEEP_MAX)
        /\ tier3_embeddings' =
               SubSeq(tier3_embeddings, 1, Min(TIER3_KEEP_MAX, Len(tier3_embeddings)))
        /\ KeepsNewest(ledger_48h, ledger_48h', now - LEDGER_HOURS)
        /\ KeepsNewest(tier1_events_48h, tier1_events_48h', now - TIER1_HOURS)
        /\ KeepsNewest(tier2_summaries_30d, tier2_summaries_30d', now - TIER2_DAYS * 24)
    ]_vars

\* A call that cut tier2 and tier3 to their caps and, in vibe_history, both
\* dropped the oldest point for its age and cut the rest to the cap.
C4_Witness ==
    /\ Did("apply_retention") /\ lastOp.reps = 1
    /\ lastOp.pre.tier2_summaries_30d > TIER2_KEEP_MAX
    /\ Len(tier2_summaries_30d) = TIER2_KEEP_MAX
    /\ lastOp.pre.tier3_embeddings > TIER3_KEEP_MAX
    /\ Len(tier3_embeddings) = TIER3_KEEP_MAX
    /\ lastOp.pre.vibe_history > VIBE_KEEP_MAX + 1
    /\ Len(vibe_history) = VIBE_KEEP_MAX
    /\ vibe_history[1].run > OldRuns

(***************************************************************************)
(* C5.  As claimed: a record whose timestamp cannot be parsed is never     *)
(* dropped by apply_retention_policy.                                      *)
(***************************************************************************)
UnparsableStay(pre, post) ==
    \A i \in 1..Len(pre) : ~Parsable(pre[i].ts_utc) => pre[i] \in Range(post)

C5_UnparsableSurvives ==
    [][Did("apply_retention")' =>
        /\ UnparsableStay(ledger_48h, ledger_48h')
        /\ UnparsableStay(tier1_events_48h, tier1_events_48h')
        /\ UnparsableStay(vibe_history, vibe_history')
        /\ UnparsableStay(tier2_summaries_30d, tier2_summaries_30d')
        /\ UnparsableStay(tier3_embeddings, tier3_embeddings')
    ]_vars

(***************************************************************************)
(* C5, amended.  The age filter never removes a record whose timestamp     *)
(* cannot be parsed: the record survives apply_retention_policy whenever   *)
(* fewer than hard_cap records that pass the age filter precede it in its  *)
(* collection (in tier3: whenever fewer than 2000 records precede it).     *)
(***************************************************************************)
SurvivorsBefore(pre, i, cutoff) ==
    Cardinality({j \in 1..(i - 1) : ~AgedOut(pre[j], cutoff)})

UnparsableStayWithinCap(pre, post, cutoff, cap) ==
    \A i \in 1..Len(pre) :
        (~Parsable(pre[i].ts_utc) /\ SurvivorsBefore(pre, i, cutoff) < cap)
            => pre[i] \in Range(post)

C5_UnparsableKeptWithinCap ==
    [][Did("apply_retention")' =>
        /\ UnparsableStayWithinCap(ledger_48h, ledger_48h', now - LEDGER_HOURS,
                                   LEDGER_KEEP_MAX)
        /\ UnparsableStayWithinCap(tier1_events_48h, tier1_events_48h', now - TIER1_HOURS,
                                   TIER1_KEEP_MAX)
        /\ UnparsableStayWithinCap(vibe_history, vibe_history', now - VIBE_DAYS * 24,
                                   VIBE_KEEP_MAX)
        /\ UnparsableStayWithinCap(tier2_summaries_30d, tier2_summaries_30d',
                                   now - TIER2_DAYS * 24, TIER2_KEEP_MAX)
        /\ \A i \in 1..Len(tier3_embeddings) :
               (~Parsable(tier3_embeddings[i].ts_utc) /\ i <= TIER3_KEEP_MAX)
                   => tier3_embeddings[i] \in Range(tier3_embeddings')
    ]_vars

\* A call that pruned the ledger by age and kept an unparsable record created
\* before the cutoff.
C5_Witness ==
    /\ Did("apply_retention") /\ lastOp.reps = 1
    /\ Len(ledger_48h) < lastOp.pre.ledger_48h
    /\ \E i \in 1..Len(ledger_48h) :
           /\ ~Parsable(ledger_48h[i].ts_utc)
           /\ LogAt(ledger_48h[i].run).at < now - LEDGER_HOURS

(***************************************************************************)
(* C6.  apply_retention_policy is idempotent: right after a call, a second *)
(* call at the same time leaves the five collections as they are.          *)
(***************************************************************************)
C6_Idempotent == Did("apply_retention") => apply_retention_policy(Session, now) = Session

\* Two calls in succession, the first of which removed records.
C6_Witness ==
    /\ Did("apply_retention") /\ lastOp.reps = 2
    /\ \E c \in CollNames : Len(Session[c]) < lastOp.pre[c]

(***************************************************************************)
(* C7.  export_payload returns the ledger, vibe, tier2 and tier3 records   *)
(* and the privacy statement only: the document is the one an empty tier1  *)
(* gives, no record of it has an events field, any other tier1 gives the   *)
(* same document, and the call leaves the five collections unchanged.      *)
(***************************************************************************)
ExportKeys ==
    {"ledger_48h", "vibe_history_30d", "tier2_summaries_30d", "tier3_embeddings",
     "privacy_statement"}

\* The session with another tier1: none, or other events in every record.
Tier1Variants(S) ==
    {[S EXCEPT !.tier1_events_48h = <<>>]}
    \cup {[S EXCEPT !.tier1_events_48h =
              [i \in 1..Len(@) |-> [@[i] EXCEPT !.events = p.events]]] : p \in Perceptions}

NoEventsIn(doc) ==
    \A key \in (DOMAIN doc) \ {"privacy_statement"} :
        \A i \in 1..Len(doc[key]) : "events" \notin DOMAIN doc[key][i]

C7_ExportExcludesTier1 ==
    [][Did("export")' =>
        /\ UNCHANGED colls
        /\ DOMAIN exported' = ExportKeys
        /\ exported'.privacy_statement = PRIVACY_STATEMENT
        /\ NoEventsIn(exported')
        /\ \A V \in Tier1Variants(Session) : ExportOf(V) = exported'
    ]_vars

\* An export of a session whose tier1 holds two different events payloads.
C7_Witness ==
    /\ Did("export")
    /\ Len(exported.ledger_48h) = 2
    /\ Len(tier1_events_48h) = 2
    /\ tier1_events_48h[1].events # tier1_events_48h[2].events

(***************************************************************************)
(* C8.  The embedding_id of a tier3 record depends only on the content of  *)
(* the Tier2Summary of its run (timestamp, summary, conclusion_type): runs *)
(* with the same Tier2Summary content have the same id, whatever their     *)
(* events, fact_receipt and position; runs whose summary texts differ have *)
(* different ids.                                                          *)
(***************************************************************************)
T2Of(e) == asdict(LogAt(e.run).t2)

C8_IdFromSummaryOnly ==
    \A i, j \in 1..Len(tier3_embeddings) :
        LET a == tier3_embeddings[i]
            b == tier3_embeddings[j]
        IN  /\ T2Of(a) = T2Of(b) => a.embedding_id = b.embedding_id
            /\ T2Of(a).summary # T2Of(b).summary => a.embedding_id # b.embedding_id

\* Two runs with the same Tier2Summary content but other events and another
\* fact_receipt, and a third tier3 record whose summary differs.
C8_Witness ==
    \E i, j \in 1..Len(tier3_embeddings) :
        LET a == tier3_embeddings[i]
            b == tier3_embeddings[j]
        IN  /\ a.run # b.run
            /\ T2Of(a) = T2Of(b)
            /\ \/ LogAt(a.run).events # LogAt(b.run).events
               \/ Get(LogAt(a.run).result, "fact_receipt", EmptyDict)
                      # Get(LogAt(b.run).result, "fact_receipt", EmptyDict)
            /\ a.embedding_id = b.embedding_id

(***************************************************************************)
(* C9.  Every tier3 record's theme is the conclusion_type of the           *)
(* Tier2Summary its run created, which is the type of the run's conclusion *)
(* or "unknown" without one; the tier2 record of the same run, while it is *)
(* kept, has that conclusion_type.                                         *)
(***************************************************************************)
ConclusionTypeOf(result) ==
    Get(Get(result, "conclusion", EmptyDict), "type", JStr("unknown"))

C9_ThemeIsConclusionType ==
    \A i \in 1..Len(tier3_embeddings) :
        LET e == tier3_embeddings[i]
            entry == LogAt(e.run)
        IN  /\ e.theme = entry.t2.conclusion_type
            /\ e.theme = ConclusionTypeOf(entry.result)
            /\ \A j \in 1..Len(tier2_summaries_30d) :
                   tier2_summaries_30d[j].run = e.run
                       => tier2_summaries_30d[j].conclusion_type = e.theme

\* After a pruning call: a theme defaulted to "unknown" beside one that was given.
C9_Witness ==
    /\ Did("apply_retention")
    /\ \E i, j \in 1..Len(tier3_embeddings) :
           /\ tier3_embeddings[i].theme = JStr("unknown")
           /\ tier3_embeddings[j].theme = JStr("ambiguous")
           /\ "type" \notin DOMAIN Get(LogAt(tier3_embeddings[i].run).result,
                                       "conclusion", EmptyDict).v

(***************************************************************************)
(* C10.  The level extract_tension_level returns is one of low, rising,    *)
(* high, unknown: a level of the first tension-signal event that is none   *)
(* of low, rising, high comes back as unknown.                             *)
(***************************************************************************)
TensionLevels == {"low", "rising", "high", "unknown"}

C10_LevelDomain == tension # NoTension => tension.level \in TensionLevels

(***************************************************************************)
(* C11.  extract_tension_level decides on the first tension-signal event   *)
(* only: should_notify_hint is true exactly when that event's level is     *)
(* rising or high or its signals contain rapid_escalation, whatever the    *)
(* later events are; with no tension-signal event the result is            *)
(* ("unknown", false).                                                     *)
(***************************************************************************)
EventsOf(ed) == IF "events" \in DOMAIN ed THEN ed["events"] ELSE <<>>

IsTensionSignal(ev) == "type" \in DOMAIN ev /\ ev["type"] = "TensionSignalEvent"

Escalating(ev) ==
    \/ "level" \in DOMAIN ev /\ ev["level"] \in {"rising", "high"}
    \/ "signals" \in DOMAIN ev /\ "rapid_escalation" \in ev["signals"]

C11_FirstTensionEventDecides ==
    tension # NoTension =>
        LET evs == EventsOf(events_in)
        IN  /\ (\A i \in 1..Len(evs) : ~IsTensionSignal(evs[i]))
                  => tension = [level |-> "unknown", should_notify_hint |-> FALSE]
            /\ \A i \in 1..Len(evs) :
                   (IsTensionSignal(evs[i]) /\ \A j \in 1..(i - 1) : ~IsTensionSignal(evs[j]))
                       => /\ tension.should_notify_hint = Escalating(evs[i])
                          /\ tension = extract_tension_level(("events" :> SubSeq(evs, 1, i)))

\* Two tension-signal events that disagree: a calm first one, an escalating
\* second one, and the hint follows the first.
C11_Witness ==
    /\ tension # NoTension
    /\ Len(EventsOf(events_in)) = 2
    /\ IsTensionSignal(events_in["events"][1]) /\ ~Escalating(events_in["events"][1])
    /\ IsTensionSignal(events_in["events"][2]) /\ Escalating(events_in["events"][2])
    /\ tension.should_notify_hint = FALSE

(***************************************************************************)
(* C12.  The count cap of vibe_history keeps the oldest entries: when its  *)
(* first 2000 entries are all within the 30-day window, a call of          *)
(* apply_retention_policy leaves exactly those 2000 entries, in order, and *)
(* discards every point appended after them, the newly recorded one        *)
(* included; this lasts for as long as none of the 2000 ages out.          *)
(***************************************************************************)
InVibeWindow(p) ==
    LET dt == fromisoformat(p.ts_utc)
    IN  dt.ok /\ ~dt.aware /\ dt.t >= now - VIBE_DAYS * 24

VibeFullInWindow ==
    /\ Len(vibe_history) >= VIBE_KEEP_MAX
    /\ \A i \in 1..VIBE_KEEP_MAX : InVibeWindow(vibe_history[i])

C12_CapKeepsOldest ==
    [][ (Did("apply_retention")' /\ VibeFullInWindow)
            => /\ vibe_history' = SubSeq(vibe_history, 1, VIBE_KEEP_MAX)
               /\ \A i \in (VIBE_KEEP_MAX + 1)..Len(vibe_history) :
                      \A j \in 1..Len(vibe_history') :
                          vibe_history'[j].run # vibe_history[i].run
    ]_vars

\* vibe_history was cut to its cap, a run then appended its point, and the
\* next pruning, in the same hour, dropped that point and kept runs 1..2000.
C12_Witness ==
    /\ Did("apply_retention") /\ lastOp.reps = 1
    /\ ticks = 0
    /\ Len(log) = 1 /\ "vibe_history" \in log[1].added
    /\ lastOp.pre.vibe_history = VIBE_KEEP_MAX + 1
    /\ Len(vibe_history) = VIBE_KEEP_MAX
    /\ vibe_history[1].run = 1
    /\ vibe_history[VIBE_KEEP_MAX].run = VIBE_KEEP_MAX
    /\ \A i \in 1..Len(vibe_history) : vibe_history[i].run # base + 1

(***************************************************************************)
(* C13.  When every run is recorded with a parsable timestamp equal to the *)
(* current time, then in every state reached by add_run_artifacts and      *)
(* apply_retention_policy calls every run with a record in tier2 still has *)
(* its record in tier3: the runs of tier2 are a prefix of the runs of      *)
(* tier3 and tier2 is no longer than tier3.                                *)
(***************************************************************************)
RunsOf(list) == [i \in 1..Len(list) |-> list[i].run]

StampedNow == \A k \in 1..Len(log) : Parsable(log[k].ts) /\ log[k].ts.t = log[k].at

C13_Tier2WithinTier3 ==
    StampedNow =>
        /\ Len(tier2_summaries_30d) <= Len(tier3_embeddings)
        /\ RunsOf(tier2_summaries_30d)
               = SubSeq(RunsOf(tier3_embeddings), 1, Len(tier2_summaries_30d))
        /\ Range(RunsOf(tier2_summaries_30d)) \subseteq Range(RunsOf(tier3_embeddings))

====
